---- MODULE Spec2Model ----
(***************************************************************************)
(* The predictor chain of pymorphy2 (src/pymorphy2/predictors.py).         *)
(*                                                                         *)
(* Text is a sequence of one-character strings.  Cyrillic letters are      *)
(* written with one Latin lower-case letter each (t o k a i d e s p),      *)
(* Latin-script letters with upper-case letters (L M), punctuation with    *)
(* "." and the hyphen with "-".                                            *)
(*                                                                         *)
(* A parse is the 7-tuple of the source written as a record                *)
(*   [word, tag, normal_form, para_id, idx, estimate, methods].            *)
(* An estimate is a rational <<numerator, denominator>>.  A method chain   *)
(* is [type, items]: Python distinguishes a tuple from a list, and         *)
(* tuple + list raises TypeError.                                          *)
(***************************************************************************)
EXTENDS Integers, Sequences, FiniteSets, TLC

VARIABLES
    word,          \* the word of the current query
    seen_parses,   \* the query's shared set of (word, tag, normal form) triples
    seen_tags,     \* the query's shared set of tags
    returned,      \* triples returned by the earlier parse calls of the query
    ret,           \* the last predictor call: its inputs and its outcome
    ncalls,        \* number of predictor calls made in the query
    dawg,          \* dict.prediction_suffixes_dawgs: the fuzzy suffix indexes
    memo,          \* the analyzer's answers for the words analysed so far
    lex            \* the running get_lexeme replay

vars == <<word, seen_parses, seen_tags, returned, ret, ncalls, dawg, memo, lex>>

(***************************************************************************)
(* Bounds of the model.                                                    *)
(***************************************************************************)
MaxCalls == 2        \* predictor calls per query
MaxSubParses == 2    \* parses (tags) the analyzer or dictionary returns per call
MaxEntries == 2      \* (count, paradigm) entries stored in the suffix indexes
MaxCnt == 2          \* largest observation count in the suffix indexes

(***************************************************************************)
(* Text.                                                                   *)
(***************************************************************************)
Hyphen == "-"
LatinChars == {"L", "M"}
CyrillicChars == {"t", "o", "k", "a", "i", "d", "e", "s", "p", "j"}
PunctChars == {".", "-"}

\* str.endswith / str.startswith
EndsWith(w, s) ==
    /\ Len(s) <= Len(w)
    /\ SubSeq(w, Len(w) - Len(s) + 1, Len(w)) = s

StartsWith(w, s) ==
    /\ Len(s) <= Len(w)
    /\ SubSeq(w, 1, Len(s)) = s

\* word[n:] for n >= 0
DropFirst(w, n) == SubSeq(w, n + 1, Len(w))

\* word[:-n]: for n = 0 Python reads word[:0], the empty string
DropLast(w, n) == IF n = 0 THEN <<>> ELSE SubSeq(w, 1, Len(w) - n)

\* word[-n:] for n >= 1: the whole word when it is shorter than n
TakeLast(w, n) == IF n >= Len(w) THEN w ELSE SubSeq(w, Len(w) - n + 1, Len(w))

\* position of the first hyphen, 0 when there is none
FirstHyphen(w) ==
    IF \E i \in 1..Len(w) : w[i] = Hyphen
    THEN CHOOSE i \in 1..Len(w) : w[i] = Hyphen /\ \A j \in 1..(i - 1) : w[j] # Hyphen
    ELSE 0

(***************************************************************************)
(* Estimates: rationals <<n, d>> with d > 0.                               *)
(***************************************************************************)
EstMul(a, b) == <<a[1] * b[1], a[2] * b[2]>>
EstLess(a, b) == a[1] * b[2] < b[1] * a[2]
EstLeq(a, b) == a[1] * b[2] <= b[1] * a[2]
EstEq(a, b) == a[1] * b[2] = b[1] * a[2]
One == <<1, 1>>
Zero == <<0, 1>>

(***************************************************************************)
(* Tags.  A tag exposes POS, number, case, person, tense (and gender);     *)
(* extra is the grammeme a shape classifier registers.                     *)
(***************************************************************************)
MkTag(pos, gender, number, case) ==
    [POS |-> pos, gender |-> gender, number |-> number, case |-> case,
     person |-> "None", tense |-> "None", extra |-> "None"]

LabelTag(label) ==
    [POS |-> "None", gender |-> "None", number |-> "None", case |-> "None",
     person |-> "None", tense |-> "None", extra |-> label]

NounMascSing == MkTag("NOUN", "masc", "sing", "nomn")
NounFemnSing == MkTag("NOUN", "femn", "sing", "nomn")
NounMascPlur == MkTag("NOUN", "masc", "plur", "nomn")
NproSing == MkTag("NPRO", "masc", "sing", "nomn")

\* tag.is_productive(): closed classes are not productive
NonProductivePOS == {"NUMR", "NPRO", "PRED", "PREP", "CONJ", "PRCL", "INTJ"}
is_productive(tag) == tag.POS \notin NonProductivePOS

\* a total order on tags, as Python's comparison of two tags gives one
TagOrder == <<NounMascSing, NounFemnSing, NounMascPlur, NproSing,
              LabelTag("PNCT"), LabelTag("LATN")>>
TagRank(tag) == CHOOSE i \in 1..Len(TagOrder) : TagOrder[i] = tag

(***************************************************************************)
(* Method chains.                                                          *)
(***************************************************************************)
TupleChain(items) == [type |-> "tuple", items |-> items]
ListChain(items) == [type |-> "list", items |-> items]

\* methods + (method,): defined for a tuple only
CanExtend(methods) == methods.type = "tuple"
Extend(methods, method) == TupleChain(Append(methods.items, method))

Triple(p) == <<p.word, p.tag, p.normal_form>>

MkParse(w, tag, nf, para_id, idx, estimate, methods) ==
    [word |-> w, tag |-> tag, normal_form |-> nf, para_id |-> para_id,
     idx |-> idx, estimate |-> estimate, methods |-> methods]

(***************************************************************************)
(* The dedup helpers.  acc is [result, seen, status]; once a Python error  *)
(* was raised (status # "ok") no further statement of the call runs.       *)
(***************************************************************************)
Acc(result, seen) ==
    [result |-> result, seen |-> seen, status |-> "ok", calls |-> <<>>]

_add_parse_if_not_seen(parse, acc) ==
    IF Triple(parse) \in acc.seen
    THEN acc
    ELSE [acc EXCEPT !.seen = @ \cup {Triple(parse)},
                     !.result = Append(@, parse)]

_add_tag_if_not_seen(tag, acc) ==
    IF tag \in acc.seen
    THEN acc
    ELSE [acc EXCEPT !.seen = @ \cup {tag},
                     !.result = Append(@, tag)]

Raise(acc, error) == [acc EXCEPT !.status = error]

\* the analyzer (self.morph.parse, self.morph.tag) is called on w
Called(acc, w) == [acc EXCEPT !.calls = Append(@, w)]

(***************************************************************************)
(* Shape classifiers: _ShapeAnalyzer, PunctuationPredictor, LatinPredictor *)
(***************************************************************************)
\* shapes.is_punctuation: a non-empty token of punctuation characters
is_punctuation(w) == w # <<>> /\ \A i \in 1..Len(w) : w[i] \in PunctChars

\* shapes.is_latin: some letter, and every letter of the Latin script
is_latin(w) ==
    /\ \E i \in 1..Len(w) : w[i] \in LatinChars
    /\ \A i \in 1..Len(w) : w[i] \notin CyrillicChars

ShapePredictors == {"Punctuation", "Latin"}
_check_shape(pred, w) == IF pred = "Punctuation" THEN is_punctuation(w) ELSE is_latin(w)
_get_tag(pred) == IF pred = "Punctuation" THEN LabelTag("PNCT") ELSE LabelTag("LATN")
ShapeESTIMATE == <<1, 2>>

ShapeAnalyzer_parse(pred, w, seen) ==
    IF ~_check_shape(pred, w)
    THEN Acc(<<>>, seen)
    ELSE Acc(<<MkParse(w, _get_tag(pred), w, "None", "None", ShapeESTIMATE,
                       ListChain(<< <<pred>> >>))>>, seen)

ShapeAnalyzer_tag(pred, w, seen) ==
    IF ~_check_shape(pred, w)
    THEN Acc(<<>>, seen)
    ELSE Acc(<<_get_tag(pred)>>, seen)

(***************************************************************************)
(* KnownPrefixPredictor                                                    *)
(***************************************************************************)
KnownPrefix_ESTIMATE_DECAY == <<3, 4>>
MIN_REMINDER_LENGTH == 3

\* the dictionary's prefixes of the word, longest first
RECURSIVE PrefixesUpTo(_, _, _)
PrefixesUpTo(w, prefixes, n) ==
    IF n < 0 THEN <<>>
    ELSE (IF SubSeq(w, 1, n) \in prefixes THEN <<SubSeq(w, 1, n)>> ELSE <<>>)
         \o PrefixesUpTo(w, prefixes, n - 1)

_word_prefixes(w, prefixes) == PrefixesUpTo(w, prefixes, Len(w))

KnownPrefix_build(prefix, p) ==
    MkParse(prefix \o p.word, p.tag, prefix \o p.normal_form, p.para_id, p.idx,
            EstMul(p.estimate, KnownPrefix_ESTIMATE_DECAY),
            Extend(p.methods, <<"KnownPrefix", prefix>>))

RECURSIVE KnownPrefix_parse_inner(_, _, _, _)
KnownPrefix_parse_inner(prefix, parses, j, acc) ==
    IF j > Len(parses) \/ acc.status # "ok" THEN acc
    ELSE KnownPrefix_parse_inner(prefix, parses, j + 1,
            IF ~is_productive(parses[j].tag) THEN acc
            ELSE IF ~CanExtend(parses[j].methods) THEN Raise(acc, "TypeError")
            ELSE _add_parse_if_not_seen(KnownPrefix_build(prefix, parses[j]), acc))

RECURSIVE KnownPrefix_parse_loop(_, _, _, _, _)
KnownPrefix_parse_loop(w, prefixes, morph, k, acc) ==
    IF k > Len(prefixes) \/ acc.status # "ok" THEN acc
    ELSE LET unprefixed_word == DropFirst(w, Len(prefixes[k]))
         IN  KnownPrefix_parse_loop(w, prefixes, morph, k + 1,
                IF Len(unprefixed_word) < MIN_REMINDER_LENGTH THEN acc
                ELSE KnownPrefix_parse_inner(prefixes[k], morph[unprefixed_word], 1,
                                             Called(acc, unprefixed_word)))

KnownPrefixPredictor_parse(w, prediction_prefixes, morph, seen) ==
    KnownPrefix_parse_loop(w, _word_prefixes(w, prediction_prefixes), morph, 1,
                           Acc(<<>>, seen))

RECURSIVE KnownPrefix_tag_inner(_, _, _)
KnownPrefix_tag_inner(tags, j, acc) ==
    IF j > Len(tags) THEN acc
    ELSE KnownPrefix_tag_inner(tags, j + 1,
            IF ~is_productive(tags[j]) THEN acc
            ELSE _add_tag_if_not_seen(tags[j], acc))

RECURSIVE KnownPrefix_tag_loop(_, _, _, _, _)
KnownPrefix_tag_loop(w, prefixes, morph, k, acc) ==
    IF k > Len(prefixes) THEN acc
    ELSE LET unprefixed_word == DropFirst(w, Len(prefixes[k]))
         IN  KnownPrefix_tag_loop(w, prefixes, morph, k + 1,
                IF Len(unprefixed_word) < MIN_REMINDER_LENGTH THEN acc
                ELSE KnownPrefix_tag_inner(morph[unprefixed_word], 1,
                                           Called(acc, unprefixed_word)))

KnownPrefixPredictor_tag(w, prediction_prefixes, morph, seen) ==
    KnownPrefix_tag_loop(w, _word_prefixes(w, prediction_prefixes), morph, 1,
                         Acc(<<>>, seen))

\* the words the predictor hands to the analyzer
KnownPrefix_stems(w, prediction_prefixes) ==
    {DropFirst(w, Len(p)) : p \in {q \in prediction_prefixes :
        StartsWith(w, q) /\ Len(w) - Len(q) >= MIN_REMINDER_LENGTH}}

(***************************************************************************)
(* UnknownPrefixPredictor                                                  *)
(***************************************************************************)
UnknownPrefix_ESTIMATE_DECAY == <<1, 2>>
WordSplitsMinReminder == 3
WordSplitsMaxPrefixLength == 5

Min(a, b) == IF a < b THEN a ELSE b

\* utils.word_splits: the (prefix, remainder) splits, shortest prefix first
word_splits(w) ==
    [i \in 1..Min(WordSplitsMaxPrefixLength, Len(w) - WordSplitsMinReminder) |->
        <<SubSeq(w, 1, i), DropFirst(w, i)>>]

UnknownPrefix_build(prefix, p) ==
    MkParse(prefix \o p.word, p.tag, prefix \o p.normal_form, p.para_id, p.idx,
            EstMul(p.estimate, UnknownPrefix_ESTIMATE_DECAY),
            Extend(p.methods, <<"UnknownPrefix", prefix>>))

RECURSIVE UnknownPrefix_parse_inner(_, _, _, _)
UnknownPrefix_parse_inner(prefix, parses, j, acc) ==
    IF j > Len(parses) \/ acc.status # "ok" THEN acc
    ELSE UnknownPrefix_parse_inner(prefix, parses, j + 1,
            IF ~is_productive(parses[j].tag) THEN acc
            ELSE IF ~CanExtend(parses[j].methods) THEN Raise(acc, "TypeError")
            ELSE _add_parse_if_not_seen(UnknownPrefix_build(prefix, parses[j]), acc))

RECURSIVE UnknownPrefix_parse_loop(_, _, _, _)
UnknownPrefix_parse_loop(splits, dict, k, acc) ==
    IF k > Len(splits) \/ acc.status # "ok" THEN acc
    ELSE UnknownPrefix_parse_loop(splits, dict, k + 1,
            UnknownPrefix_parse_inner(splits[k][1], dict[splits[k][2]], 1, acc))

UnknownPrefixPredictor_parse(w, dict, seen) ==
    UnknownPrefix_parse_loop(word_splits(w), dict, 1, Acc(<<>>, seen))

RECURSIVE UnknownPrefix_tag_loop(_, _, _, _)
UnknownPrefix_tag_loop(splits, dict, k, acc) ==
    IF k > Len(splits) THEN acc
    ELSE UnknownPrefix_tag_loop(splits, dict, k + 1,
            KnownPrefix_tag_inner(dict[splits[k][2]], 1, acc))

UnknownPrefixPredictor_tag(w, dict, seen) ==
    UnknownPrefix_tag_loop(word_splits(w), dict, 1, Acc(<<>>, seen))

UnknownPrefix_stems(w) == {word_splits(w)[i][2] : i \in DOMAIN word_splits(w)}

(***************************************************************************)
(* HyphenSeparatedParticlePredictor                                        *)
(***************************************************************************)
Particle_ESTIMATE_DECAY == <<9, 10>>

\* "-то", "-ка", "-таки", "-де", "-тко", "-тка", "-с", "-ста"
PARTICLES_AFTER_HYPHEN ==
    << <<"-", "t", "o">>, <<"-", "k", "a">>, <<"-", "t", "a", "k", "i">>,
       <<"-", "d", "e">>, <<"-", "t", "k", "o">>, <<"-", "t", "k", "a">>,
       <<"-", "s">>, <<"-", "s", "t", "a">> >>

\* the particle appended to the surface form only
Particle_build_surface(particle, p) ==
    MkParse(p.word \o particle, p.tag, p.normal_form, p.para_id, p.idx,
            EstMul(p.estimate, <<9, 10>>),
            TupleChain(Append(p.methods.items, <<"HyphenSeparatedParticle", particle>>)))

Particle_build(particle, p) ==
    MkParse(p.word \o particle, p.tag, p.normal_form \o particle, p.para_id, p.idx,
            EstMul(p.estimate, Particle_ESTIMATE_DECAY),
            Extend(p.methods, <<"HyphenSeparatedParticle", particle>>))

RECURSIVE Particle_parse_inner(_, _, _, _)
Particle_parse_inner(particle, parses, j, acc) ==
    IF j > Len(parses) \/ acc.status # "ok" THEN acc
    ELSE Particle_parse_inner(particle, parses, j + 1,
            IF ~CanExtend(parses[j].methods) THEN Raise(acc, "TypeError")
            ELSE _add_parse_if_not_seen(Particle_build(particle, parses[j]), acc))

\* the for loop over the particles: continue, continue, or analyse and break
RECURSIVE Particle_parse_loop(_, _, _, _)
Particle_parse_loop(w, morph, k, acc) ==
    IF k > Len(PARTICLES_AFTER_HYPHEN) THEN acc
    ELSE LET particle == PARTICLES_AFTER_HYPHEN[k]
             unsuffixed_word == DropLast(w, Len(particle))
         IN  IF ~EndsWith(w, particle) THEN Particle_parse_loop(w, morph, k + 1, acc)
             ELSE IF unsuffixed_word = <<>> THEN Particle_parse_loop(w, morph, k + 1, acc)
             ELSE Particle_parse_inner(particle, morph[unsuffixed_word], 1,
                                       Called(acc, unsuffixed_word))

HyphenSeparatedParticlePredictor_parse(w, morph, seen) ==
    Particle_parse_loop(w, morph, 1, Acc(<<>>, seen))

\* result.extend(self.morph.tag(unsuffixed_word)) and break
RECURSIVE Particle_tag_loop(_, _, _, _)
Particle_tag_loop(w, morph, k, acc) ==
    IF k > Len(PARTICLES_AFTER_HYPHEN) THEN acc
    ELSE LET particle == PARTICLES_AFTER_HYPHEN[k]
             unsuffixed_word == DropLast(w, Len(particle))
         IN  IF ~EndsWith(w, particle) THEN Particle_tag_loop(w, morph, k + 1, acc)
             ELSE IF unsuffixed_word = <<>> THEN Particle_tag_loop(w, morph, k + 1, acc)
             ELSE [Called(acc, unsuffixed_word) EXCEPT
                      !.result = @ \o morph[unsuffixed_word]]

HyphenSeparatedParticlePredictor_tag(w, morph, seen) ==
    Particle_tag_loop(w, morph, 1, Acc(<<>>, seen))

Particle_stems(w) ==
    {DropLast(w, Len(PARTICLES_AFTER_HYPHEN[k])) : k \in {i \in 1..Len(PARTICLES_AFTER_HYPHEN) :
        EndsWith(w, PARTICLES_AFTER_HYPHEN[i]) /\ Len(w) > Len(PARTICLES_AFTER_HYPHEN[i])}}

(***************************************************************************)
(* HyphenatedWordsPredictor                                                *)
(***************************************************************************)
Hyphenated_ESTIMATE_DECAY == <<3, 4>>

_similarity_features(tag) == <<tag.POS, tag.number, tag.case, tag.person, tag.tense>>

\* left, right = word.split('-', 1)
SplitLeft(w) == SubSeq(w, 1, FirstHyphen(w) - 1)
SplitRight(w) == DropFirst(w, FirstHyphen(w))

\* '-'.join([a, b])
JoinHyphen(a, b) == a \o <<Hyphen>> \o b

\* Step 1: the left part is an uninflected prefix
Hyphenated_build1(left, right, p) ==
    MkParse(JoinHyphen(left, p.word), p.tag, JoinHyphen(left, p.normal_form),
            p.para_id, p.idx, EstMul(p.estimate, Hyphenated_ESTIMATE_DECAY),
            Extend(p.methods, <<"HyphenatedWords", right>>))

\* Step 2: both parts are inflected; the tag is the left part's
Hyphenated_build2(w, left_parse, right_parse) ==
    MkParse(JoinHyphen(left_parse.word, right_parse.word), left_parse.tag,
            JoinHyphen(left_parse.normal_form, right_parse.normal_form),
            left_parse.para_id, left_parse.idx,
            EstMul(left_parse.estimate, Hyphenated_ESTIMATE_DECAY),
            Extend(left_parse.methods, <<"HyphenatedWords", w>>))

RECURSIVE Hyphenated_step1(_, _, _, _, _)
Hyphenated_step1(left, right, right_parses, j, acc) ==
    IF j > Len(right_parses) \/ acc.status # "ok" THEN acc
    ELSE Hyphenated_step1(left, right, right_parses, j + 1,
            IF ~CanExtend(right_parses[j].methods) THEN Raise(acc, "TypeError")
            ELSE _add_parse_if_not_seen(Hyphenated_build1(left, right, right_parses[j]), acc))

RECURSIVE Hyphenated_step2_inner(_, _, _, _, _)
Hyphenated_step2_inner(w, left_parse, right_parses, j, acc) ==
    IF j > Len(right_parses) \/ acc.status # "ok" THEN acc
    ELSE Hyphenated_step2_inner(w, left_parse, right_parses, j + 1,
            IF _similarity_features(left_parse.tag) # _similarity_features(right_parses[j].tag)
            THEN acc
            ELSE IF ~CanExtend(left_parse.methods) THEN Raise(acc, "TypeError")
            ELSE _add_parse_if_not_seen(Hyphenated_build2(w, left_parse, right_parses[j]), acc))

RECURSIVE Hyphenated_step2(_, _, _, _, _)
Hyphenated_step2(w, left_parses, right_parses, i, acc) ==
    IF i > Len(left_parses) \/ acc.status # "ok" THEN acc
    ELSE Hyphenated_step2(w, left_parses, right_parses, i + 1,
            Hyphenated_step2_inner(w, left_parses[i], right_parses, 1, acc))

HyphenatedWordsPredictor_parse(w, morph, seen) ==
    IF FirstHyphen(w) = 0 THEN Acc(<<>>, seen)
    ELSE LET left == SplitLeft(w)
             right == SplitRight(w)
         IN  Hyphenated_step2(w, morph[left], morph[right], 1,
                Hyphenated_step1(left, right, morph[right], 1,
                    Called(Called(Acc(<<>>, seen), left), right)))

RECURSIVE Hyphenated_tag_loop(_, _, _)
Hyphenated_tag_loop(parses, j, acc) ==
    IF j > Len(parses) THEN acc
    ELSE Hyphenated_tag_loop(parses, j + 1, _add_tag_if_not_seen(parses[j].tag, acc))

\* parse with a private empty seen set, then the tags with their own dedup
HyphenatedWordsPredictor_tag(w, morph, seen) ==
    LET parsed == HyphenatedWordsPredictor_parse(w, morph, {})
    IN  IF parsed.status # "ok"
        THEN [Acc(<<>>, seen) EXCEPT !.status = parsed.status, !.calls = parsed.calls]
        ELSE [Hyphenated_tag_loop(parsed.result, 1, Acc(<<>>, seen))
                 EXCEPT !.calls = parsed.calls]

Hyphenated_stems(w) == IF FirstHyphen(w) = 0 THEN {} ELSE {SplitLeft(w), SplitRight(w)}

(***************************************************************************)
(* The dictionary's paradigms and fuzzy suffix indexes, as KnownSuffix-    *)
(* Predictor reads them.  A form is a (paradigm id, form index) pair.      *)
(* dawg is a set of records <<prefix_id, key, cnt, para_id, idx>>.         *)
(***************************************************************************)
\* dict.paradigm_prefixes; prefix_id is the position in the list, from 0
paradigm_prefixes == << <<>>, <<"p", "o">> >>
PrefixIds == 0..(Len(paradigm_prefixes) - 1)
max_suffix_length == 2

\* form |-> [tag, prefix_id, suffix_len]: the paradigm group the form's prefix
\* puts it in, and how many letters its ending has
Forms ==
    (<<0, 0>> :> [tag |-> NounMascSing, prefix_id |-> 0, suffix_len |-> 0]) @@
    (<<1, 1>> :> [tag |-> NounMascPlur, prefix_id |-> 0, suffix_len |-> 1]) @@
    (<<2, 0>> :> [tag |-> NproSing, prefix_id |-> 0, suffix_len |-> 0]) @@
    (<<3, 0>> :> [tag |-> NounMascSing, prefix_id |-> 1, suffix_len |-> 0]) @@
    (<<4, 0>> :> [tag |-> NounFemnSing, prefix_id |-> 0, suffix_len |-> 0])

build_tag_info(para_id, idx) == Forms[<<para_id, idx>>].tag

\* the normal form is form 0 of the paradigm: the word itself for form 0,
\* else the word without the form's ending
build_normal_form(para_id, idx, fixed_word) ==
    IF idx = 0 THEN fixed_word
    ELSE DropLast(fixed_word, Min(Len(fixed_word), Forms[<<para_id, idx>>].suffix_len))

\* the spellings the character-equivalence table (e ~ j) matches, the exact
\* spelling first
RECURSIVE Variants(_)
Variants(end) ==
    IF end = <<>> THEN << <<>> >>
    ELSE LET rest == Variants(Tail(end))
             same == [k \in 1..Len(rest) |-> <<Head(end)>> \o rest[k]]
             other == [k \in 1..Len(rest) |-> <<"j">> \o rest[k]]
         IN  IF Head(end) = "e" THEN same \o other ELSE same

ValueLess(a, b) ==
    \/ a[1] < b[1]
    \/ a[1] = b[1] /\ a[2] < b[2]
    \/ a[1] = b[1] /\ a[2] = b[2] /\ a[3] < b[3]

\* the values stored under one key, in ascending order
RECURSIVE SortedValues(_)
SortedValues(values) ==
    IF values = {} THEN <<>>
    ELSE LET least == CHOOSE v \in values : \A u \in values \ {v} : ValueLess(v, u)
         IN  <<least>> \o SortedValues(values \ {least})

ValuesAt(index, prefix_id, key) ==
    {<<e[3], e[4], e[5]>> : e \in {d \in index : d[1] = prefix_id /\ d[2] = key}}

RECURSIVE similar_items_from(_, _, _, _)
similar_items_from(index, prefix_id, keys, k) ==
    IF k > Len(keys) THEN <<>>
    ELSE (IF ValuesAt(index, prefix_id, keys[k]) = {} THEN <<>>
          ELSE << <<keys[k], SortedValues(ValuesAt(index, prefix_id, keys[k]))>> >>)
         \o similar_items_from(index, prefix_id, keys, k + 1)

\* suffixes_dawg.similar_items(end, self.dict.ee)
similar_items(index, prefix_id, end) ==
    similar_items_from(index, prefix_id, Variants(end), 1)

(***************************************************************************)
(* KnownSuffixPredictor                                                    *)
(***************************************************************************)
KnownSuffix_ESTIMATE_DECAY == <<1, 2>>

\* list(reversed(range(1, max_suffix_length+1)))
_prediction_splits == [k \in 1..max_suffix_length |-> max_suffix_length + 1 - k]

\* list(reversed(list(enumerate(self.dict.paradigm_prefixes))))
_paradigm_prefixes ==
    [k \in 1..Len(paradigm_prefixes) |->
        <<Len(paradigm_prefixes) - k, paradigm_prefixes[Len(paradigm_prefixes) + 1 - k]>>]

\* total_counts = [1] * len(self._paradigm_prefixes)
InitialTotalCounts == [g \in PrefixIds |-> 1]

KSAcc(seen) ==
    [result |-> <<>>, total_counts |-> InitialTotalCounts, seen |-> seen]

\* the body of "for cnt, para_id, idx in parses"
KnownSuffix_parse_body(w, i, fixed_suffix, prefix_id, value, acc) ==
    LET cnt == value[1]
        para_id == value[2]
        idx == value[3]
        tag == build_tag_info(para_id, idx)
        fixed_word == DropLast(w, i) \o fixed_suffix
        normal_form == build_normal_form(para_id, idx, fixed_word)
        parse == [cnt |-> cnt, word |-> fixed_word, tag |-> tag,
                  normal_form |-> normal_form, para_id |-> para_id, idx |-> idx,
                  prefix_id |-> prefix_id,
                  methods |-> TupleChain(<< <<"KnownSuffix", fixed_suffix>> >>)]
        counted == [acc EXCEPT !.total_counts[prefix_id] = @ + cnt]
    IN  IF ~is_productive(tag) THEN acc
        ELSE IF Triple(parse) \in acc.seen THEN counted
        ELSE [counted EXCEPT !.result = Append(@, parse)]

RECURSIVE KnownSuffix_parse_values(_, _, _, _, _, _, _)
KnownSuffix_parse_values(w, i, fixed_suffix, prefix_id, values, j, acc) ==
    IF j > Len(values) THEN acc
    ELSE KnownSuffix_parse_values(w, i, fixed_suffix, prefix_id, values, j + 1,
            KnownSuffix_parse_body(w, i, fixed_suffix, prefix_id, values[j], acc))

RECURSIVE KnownSuffix_parse_items(_, _, _, _, _, _)
KnownSuffix_parse_items(w, i, prefix_id, para_data, h, acc) ==
    IF h > Len(para_data) THEN acc
    ELSE KnownSuffix_parse_items(w, i, prefix_id, para_data, h + 1,
            KnownSuffix_parse_values(w, i, para_data[h][1], prefix_id,
                                     para_data[h][2], 1, acc))

\* stop trying shorter suffixes for the group: total_counts[prefix_id] > 1
KnownSuffix_parse_stop(acc, prefix_id) == acc.total_counts[prefix_id] > 1

RECURSIVE KnownSuffix_parse_splits(_, _, _, _, _)
KnownSuffix_parse_splits(w, index, prefix_id, k, acc) ==
    IF k > Len(_prediction_splits) THEN acc
    ELSE LET i == _prediction_splits[k]
             after == KnownSuffix_parse_items(w, i, prefix_id,
                          similar_items(index, prefix_id, TakeLast(w, i)), 1, acc)
         IN  IF KnownSuffix_parse_stop(after, prefix_id) THEN after
             ELSE KnownSuffix_parse_splits(w, index, prefix_id, k + 1, after)

RECURSIVE KnownSuffix_parse_groups(_, _, _, _)
KnownSuffix_parse_groups(w, index, g, acc) ==
    IF g > Len(_paradigm_prefixes) THEN acc
    ELSE KnownSuffix_parse_groups(w, index, g + 1,
            IF ~StartsWith(w, _paradigm_prefixes[g][2]) THEN acc
            ELSE KnownSuffix_parse_splits(w, index, _paradigm_prefixes[g][1], 1, acc))

\* cnt/total_counts[prefix_id] * self.ESTIMATE_DECAY
\* the relative count without the decay factor
KnownSuffix_estimate_undecayed(cnt, total) == <<cnt, total>>

KnownSuffix_estimate(cnt, total) == EstMul(<<cnt, total>>, KnownSuffix_ESTIMATE_DECAY)

KnownSuffix_final(p, total_counts) ==
    MkParse(p.word, p.tag, p.normal_form, p.para_id, p.idx,
            KnownSuffix_estimate(p.cnt, total_counts[p.prefix_id]), p.methods)

\* result.sort(key=operator.itemgetter(5), reverse=True): a stable sort
RECURSIVE InsertByEstimate(_, _)
InsertByEstimate(sorted, p) ==
    IF sorted = <<>> THEN <<p>>
    ELSE IF EstLess(Head(sorted).estimate, p.estimate) THEN <<p>> \o sorted
    ELSE <<Head(sorted)>> \o InsertByEstimate(Tail(sorted), p)

RECURSIVE SortByEstimate(_, _, _)
SortByEstimate(list, j, sorted) ==
    IF j > Len(list) THEN sorted
    ELSE SortByEstimate(list, j + 1, InsertByEstimate(sorted, list[j]))

KnownSuffixPredictor_parse(w, index, seen) ==
    LET acc == KnownSuffix_parse_groups(w, index, 1, KSAcc(seen))
        scored == [j \in 1..Len(acc.result) |->
                      KnownSuffix_final(acc.result[j], acc.total_counts)]
    IN  Acc(SortByEstimate(scored, 1, <<>>), acc.seen)

\* total_counts when the loops of parse end
KnownSuffix_total_counts(w, index, seen) ==
    KnownSuffix_parse_groups(w, index, 1, KSAcc(seen)).total_counts

\* tag: acc is [result (of <<cnt, tag>>), seen, found]
KnownSuffix_tag_body(value, acc) ==
    LET tag == build_tag_info(value[2], value[3])
    IN  IF ~is_productive(tag) THEN acc
        ELSE IF tag \in acc.seen THEN [acc EXCEPT !.found = TRUE]
        ELSE [acc EXCEPT !.found = TRUE, !.seen = @ \cup {tag},
                         !.result = Append(@, <<value[1], tag>>)]

RECURSIVE KnownSuffix_tag_values(_, _, _)
KnownSuffix_tag_values(values, j, acc) ==
    IF j > Len(values) THEN acc
    ELSE KnownSuffix_tag_values(values, j + 1, KnownSuffix_tag_body(values[j], acc))

RECURSIVE KnownSuffix_tag_items(_, _, _)
KnownSuffix_tag_items(para_data, h, acc) ==
    IF h > Len(para_data) THEN acc
    ELSE KnownSuffix_tag_items(para_data, h + 1,
            KnownSuffix_tag_values(para_data[h][2], 1, acc))

\* stop trying shorter suffixes for the group: found
\* a tag loop that tries every suffix length
KnownSuffix_tag_no_stop(acc) == FALSE

KnownSuffix_tag_stop(acc) == acc.found

RECURSIVE KnownSuffix_tag_splits(_, _, _, _, _)
KnownSuffix_tag_splits(w, index, prefix_id, k, acc) ==
    IF k > Len(_prediction_splits) THEN acc
    ELSE LET i == _prediction_splits[k]
             after == KnownSuffix_tag_items(
                          similar_items(index, prefix_id, TakeLast(w, i)), 1,
                          [acc EXCEPT !.found = FALSE])
         IN  IF KnownSuffix_tag_stop(after) THEN after
             ELSE KnownSuffix_tag_splits(w, index, prefix_id, k + 1, after)

RECURSIVE KnownSuffix_tag_groups(_, _, _, _)
KnownSuffix_tag_groups(w, index, g, acc) ==
    IF g > Len(_paradigm_prefixes) THEN acc
    ELSE KnownSuffix_tag_groups(w, index, g + 1,
            IF ~StartsWith(w, _paradigm_prefixes[g][2]) THEN acc
            ELSE KnownSuffix_tag_splits(w, index, _paradigm_prefixes[g][1], 1, acc))

\* result.sort(reverse=True) on (cnt, tag) pairs
PairGreater(a, b) ==
    \/ a[1] > b[1]
    \/ a[1] = b[1] /\ TagRank(a[2]) > TagRank(b[2])

RECURSIVE InsertPair(_, _)
InsertPair(sorted, p) ==
    IF sorted = <<>> THEN <<p>>
    ELSE IF PairGreater(p, Head(sorted)) THEN <<p>> \o sorted
    ELSE <<Head(sorted)>> \o InsertPair(Tail(sorted), p)

RECURSIVE SortPairs(_, _, _)
SortPairs(list, j, sorted) ==
    IF j > Len(list) THEN sorted
    ELSE SortPairs(list, j + 1, InsertPair(sorted, list[j]))

KnownSuffixPredictor_tag(w, index, seen) ==
    LET acc == KnownSuffix_tag_groups(w, index, 1,
                   [result |-> <<>>, seen |-> seen, found |-> FALSE])
        sorted == SortPairs(acc.result, 1, <<>>)
    IN  Acc([j \in 1..Len(sorted) |-> sorted[j][2]], acc.seen)

(***************************************************************************)
(* What the collaborators may return.                                      *)
(***************************************************************************)
\* Dictionary.parse: exact matches, estimate 1, an empty method chain
DictParse(u, form) ==
    MkParse(u, build_tag_info(form[1], form[2]),
            build_normal_form(form[1], form[2], u),
            form[1], form[2], One, TupleChain(<<>>))

DictForms == {<<0, 0>>, <<2, 0>>}

DictCandidates(u) == IF u = <<>> THEN {} ELSE {DictParse(u, f) : f \in DictForms}

\* a parse the analyzer got from KnownSuffixPredictor for an unknown word
PredictedIndex(u) == {<<0, TakeLast(u, 1), 1, 4, 0>>}
PredictedCandidates(u) ==
    IF u = <<>> THEN {}
    ELSE LET r == KnownSuffixPredictor_parse(u, PredictedIndex(u), {}).result
         IN  {r[j] : j \in 1..Len(r)}

\* a parse the analyzer got from a shape classifier
ShapeCandidates(u) ==
    UNION {LET r == ShapeAnalyzer_parse(pred, u, {}).result
           IN  {r[j] : j \in 1..Len(r)} : pred \in ShapePredictors}

\* MorphAnalyzer.parse: the dictionary's parses, or else the predictors'
MorphCandidates(u) == DictCandidates(u) \cup PredictedCandidates(u) \cup ShapeCandidates(u)

Range(f) == {f[x] : x \in DOMAIN f}

\* the duplicate-free lists of at most MaxSubParses elements of a set
ListsOf(S) ==
    {l \in UNION {[1..n -> S] : n \in 0..MaxSubParses} :
        \A a, b \in DOMAIN l : a # b => l[a] # l[b]}

ParseLists(S) ==
    {l \in ListsOf(S) :
        \A a, b \in DOMAIN l : a # b => Triple(l[a]) # Triple(l[b])}

\* the analyzer's (or dictionary's) answers for the words a call asks about
Answers(stems, Lists(_)) ==
    {f \in [stems -> UNION {Lists(u) : u \in stems}] : \A u \in stems : f[u] \in Lists(u)}

MorphParse(stems) == Answers(stems, LAMBDA u : ParseLists(MorphCandidates(u)))
MorphTag(stems) ==
    Answers(stems, LAMBDA u : ListsOf({p.tag : p \in MorphCandidates(u)}))
DictionaryParse(stems) == Answers(stems, LAMBDA u : ParseLists(DictCandidates(u)))
DictionaryTag(stems) ==
    Answers(stems, LAMBDA u : ListsOf({p.tag : p \in DictCandidates(u)}))

\* dict.prediction_prefixes
PrefixSets == {{<<"p", "o">>}, {<<>>, <<"p", "o">>}}

(***************************************************************************)
(* The words of a query and the suffix indexes of the dictionary.          *)
(***************************************************************************)
QueryWords ==
    { <<>>,
      <<"-", "t", "o">>,
      <<"k", "t", "o", "-", "t", "o">>,
      <<"p", "o", "k", "t", "o">>,
      <<"L", "M", "-", "t", "o">>,
      <<"-">>,
      <<"p", "o", "-", "L", "M">>,
      <<"L", "M">> }

SuffixWords == { <<"p", "o">>, <<"e">> }

\* the keys of the index that a query on w can read
IndexKeys(w) == UNION {Range(Variants(TakeLast(w, i))) : i \in 1..max_suffix_length}

IndexForms == {f \in DOMAIN Forms : f[1] # 4}

\* a form is stored in the index of its own paradigm group
IndexSlots(w) ==
    {<<Forms[f].prefix_id, key, f[1], f[2]>> :
        key \in IndexKeys(w),
        f \in {g \in IndexForms : StartsWith(w, paradigm_prefixes[Forms[g].prefix_id + 1])}}

Counts == 1..MaxCnt

\* the indexes with at most MaxEntries entries, each with a count >= 1
Indexes(w) ==
    UNION {{{<<sl[1], sl[2], c[sl], sl[3], sl[4]>> : sl \in slots} : c \in [slots -> Counts]} :
           slots \in {S \in SUBSET IndexSlots(w) : Cardinality(S) <= MaxEntries}}

(***************************************************************************)
(* The query: predictor calls on one word with shared seen sets.           *)
(***************************************************************************)
NoCall ==
    [pred |-> "none", op |-> "none", status |-> "ok", result |-> <<>>,
     seen0 |-> {}, calls |-> <<>>, sub |-> <<>>, prefixes |-> {}]

CanCall == ret = NoCall /\ ncalls < MaxCalls

\* a raised error leaves no return value
Outcome(pred, op, seen0, out, sub, prefixes) ==
    [pred |-> pred, op |-> op, status |-> out.status,
     result |-> IF out.status = "ok" THEN out.result ELSE <<>>,
     seen0 |-> seen0, calls |-> out.calls, sub |-> sub, prefixes |-> prefixes]

ParseCall(pred, out, sub, prefixes) ==
    /\ ret' = Outcome(pred, "parse", seen_parses, out, sub, prefixes)
    /\ seen_parses' = out.seen
    /\ ncalls' = ncalls + 1
    /\ UNCHANGED <<word, seen_tags, returned, dawg, memo, lex>>

TagCall(pred, out, sub, prefixes) ==
    /\ ret' = Outcome(pred, "tag", seen_tags, out, sub, prefixes)
    /\ seen_tags' = out.seen
    /\ ncalls' = ncalls + 1
    /\ UNCHANGED <<word, seen_parses, returned, dawg, memo, lex>>

ShapeParse ==
    /\ CanCall
    /\ \E pred \in ShapePredictors :
          ParseCall(pred, ShapeAnalyzer_parse(pred, word, seen_parses), <<>>, {})

ShapeTag ==
    /\ CanCall
    /\ \E pred \in ShapePredictors :
          TagCall(pred, ShapeAnalyzer_tag(pred, word, seen_tags), <<>>, {})

KnownPrefixParse ==
    /\ CanCall
    /\ \E prefixes \in PrefixSets :
       \E morph \in MorphParse(KnownPrefix_stems(word, prefixes)) :
          ParseCall("KnownPrefix",
                    KnownPrefixPredictor_parse(word, prefixes, morph, seen_parses),
                    morph, prefixes)

KnownPrefixTag ==
    /\ CanCall
    /\ \E prefixes \in PrefixSets :
       \E morph \in MorphTag(KnownPrefix_stems(word, prefixes)) :
          TagCall("KnownPrefix",
                  KnownPrefixPredictor_tag(word, prefixes, morph, seen_tags),
                  morph, prefixes)

UnknownPrefixParse ==
    /\ CanCall
    /\ \E dict \in DictionaryParse(UnknownPrefix_stems(word)) :
          ParseCall("UnknownPrefix",
                    UnknownPrefixPredictor_parse(word, dict, seen_parses), dict, {})

UnknownPrefixTag ==
    /\ CanCall
    /\ \E dict \in DictionaryTag(UnknownPrefix_stems(word)) :
          TagCall("UnknownPrefix",
                  UnknownPrefixPredictor_tag(word, dict, seen_tags), dict, {})

KnownSuffixParse ==
    /\ CanCall
    /\ ParseCall("KnownSuffix", KnownSuffixPredictor_parse(word, dawg, seen_parses),
                 <<>>, {})

KnownSuffixTag ==
    /\ CanCall
    /\ TagCall("KnownSuffix", KnownSuffixPredictor_tag(word, dawg, seen_tags),
               <<>>, {})

ParticleParse ==
    /\ CanCall
    /\ \E morph \in MorphParse(Particle_stems(word)) :
          ParseCall("HyphenSeparatedParticle",
                    HyphenSeparatedParticlePredictor_parse(word, morph, seen_parses),
                    morph, {})

ParticleTag ==
    /\ CanCall
    /\ \E morph \in MorphTag(Particle_stems(word)) :
          TagCall("HyphenSeparatedParticle",
                  HyphenSeparatedParticlePredictor_tag(word, morph, seen_tags),
                  morph, {})

HyphenatedParse ==
    /\ CanCall
    /\ \E morph \in MorphParse(Hyphenated_stems(word)) :
          ParseCall("HyphenatedWords",
                    HyphenatedWordsPredictor_parse(word, morph, seen_parses),
                    morph, {})

HyphenatedTag ==
    /\ CanCall
    /\ \E morph \in MorphParse(Hyphenated_stems(word)) :
          TagCall("HyphenatedWords",
                  HyphenatedWordsPredictor_tag(word, morph, seen_tags),
                  morph, {})

\* the analyzer takes the call's results (res.extend(...)) and goes on; an error
\* ends the query
Collect ==
    /\ ret # NoCall
    /\ ret.status = "ok"
    /\ returned' = IF ret.op = "parse"
                   THEN returned \cup {Triple(ret.result[j]) : j \in 1..Len(ret.result)}
                   ELSE returned
    /\ ret' = NoCall
    /\ UNCHANGED <<word, seen_parses, seen_tags, ncalls, dawg, memo, lex>>

Init ==
    /\ \/ word \in QueryWords /\ dawg = {}
       \/ word \in SuffixWords /\ dawg \in Indexes(word)
    /\ seen_parses = {}
    /\ seen_tags = {}
    /\ returned = {}
    /\ ret = NoCall
    /\ ncalls = 0
    /\ memo = <<>>
    /\ lex = [status |-> "idle"]

Next ==
    \/ ShapeParse
    \/ ShapeTag
    \/ KnownPrefixParse
    \/ KnownPrefixTag
    \/ UnknownPrefixParse
    \/ UnknownPrefixTag
    \/ KnownSuffixParse
    \/ KnownSuffixTag
    \/ ParticleParse
    \/ ParticleTag
    \/ HyphenatedParse
    \/ HyphenatedTag
    \/ Collect

Spec == Init /\ [][Next]_vars

(***************************************************************************)
(* get_lexeme: replaying a method chain.  methods is the chain's sequence  *)
(* of entries; a call frame either fails its assertion, ends the replay    *)
(* (at the dictionary or with a return value) or delegates.                *)
(***************************************************************************)
Last(seq) == seq[Len(seq)]
ButLast(seq) == SubSeq(seq, 1, Len(seq) - 1)

\* a replay that delegates to the predictor of the entry it has just peeled
BasePredictor_get_lexeme_same(self, form, methods) ==
    IF methods = <<>> THEN [do |-> "IndexError"]
    ELSE IF Last(methods)[1] # self THEN [do |-> "AssertionError"]
    ELSE IF Len(methods) = 1
         THEN [do |-> "dict", form |-> form, methods |-> <<>>]
    ELSE [do |-> "delegate", pred |-> Last(methods)[1],
          form |-> form, methods |-> ButLast(methods)]

BasePredictor_get_lexeme(self, form, methods) ==
    IF methods = <<>> THEN [do |-> "IndexError"]
    ELSE IF Last(methods)[1] # self THEN [do |-> "AssertionError"]
    ELSE IF Len(methods) = 1
         THEN [do |-> "dict", form |-> form, methods |-> <<>>]
    ELSE [do |-> "delegate", pred |-> methods[Len(methods) - 1][1],
          form |-> form, methods |-> ButLast(methods)]

_unsuffixed_form(form, suffix) ==
    [form EXCEPT !.word = DropLast(@, Len(suffix)),
                 !.normal_form = DropLast(@, Len(suffix))]

_suffixed_lexeme(lexeme, suffix) ==
    [j \in 1..Len(lexeme) |->
        [lexeme[j] EXCEPT !.word = @ \o suffix, !.normal_form = @ \o suffix]]

\* particle = methods[-1][1], then the base class on the unsuffixed form
HyphenSeparatedParticlePredictor_get_lexeme(self, form, methods) ==
    IF methods = <<>> \/ Len(Last(methods)) < 2 THEN [do |-> "IndexError"]
    ELSE BasePredictor_get_lexeme(self, _unsuffixed_form(form, Last(methods)[2]), methods)

ShapeAnalyzer_get_lexeme(self, form, methods) == [do |-> "return", out |-> <<form>>]

\* the dispatch on the predictor's class
get_lexeme(self, form, methods) ==
    IF self \in ShapePredictors THEN ShapeAnalyzer_get_lexeme(self, form, methods)
    ELSE IF self = "HyphenSeparatedParticle"
         THEN HyphenSeparatedParticlePredictor_get_lexeme(self, form, methods)
    ELSE BasePredictor_get_lexeme(self, form, methods)

\* Dictionary.get_lexeme(form, []): the forms of the paradigm; the paradigms of
\* the model have the one form
Dictionary_get_lexeme(form, methods) == <<form>>

(***************************************************************************)
(* Nested analysis: the analyzer answers a word once, from the dictionary  *)
(* or from one predictor, whose recursive calls read the answers for the   *)
(* shorter words.                                                          *)
(***************************************************************************)
DictWords == { <<"k", "t", "o">>, <<"t", "o">> }

LexWords ==
    DictWords \cup
    { <<"p", "o", "k", "t", "o">>,
      <<"k", "t", "o", "-", "t", "o">>,
      <<"p", "o", "k", "t", "o", "-", "t", "o">>,
      <<"p", "o", "k", "t", "o", "-", "t", "o", "-", "k", "a">>,
      <<"L", "M">> }

Predictors ==
    {"KnownPrefix", "UnknownPrefix", "KnownSuffix", "HyphenSeparatedParticle",
     "HyphenatedWords"} \cup ShapePredictors

LexPrefixes == {<<"p", "o">>}

\* Dictionary.parse(u) in the nested analysis
Dictionary_parse(u) ==
    IF u \in DictWords
    THEN <<DictParse(u, <<0, 0>>), DictParse(u, <<2, 0>>)>>
    ELSE <<>>

\* the words predictor pred asks the analyzer about
StemsOf(pred, w) ==
    CASE pred = "KnownPrefix" -> KnownPrefix_stems(w, LexPrefixes)
      [] pred = "HyphenSeparatedParticle" -> Particle_stems(w)
      [] pred = "HyphenatedWords" -> Hyphenated_stems(w)
      [] OTHER -> {}

\* morph.parse(u) during a nested call
Answer(u) == IF u \in DOMAIN memo THEN memo[u] ELSE <<>>

PredictorParse(pred, w) ==
    LET morph == [u \in StemsOf(pred, w) |-> Answer(u)]
    IN  CASE pred = "KnownPrefix" -> KnownPrefixPredictor_parse(w, LexPrefixes, morph, {})
          [] pred = "UnknownPrefix" ->
                UnknownPrefixPredictor_parse(w,
                    [u \in UnknownPrefix_stems(w) |-> Dictionary_parse(u)], {})
          [] pred = "KnownSuffix" -> KnownSuffixPredictor_parse(w, PredictedIndex(w), {})
          [] pred = "HyphenSeparatedParticle" ->
                HyphenSeparatedParticlePredictor_parse(w, morph, {})
          [] pred = "HyphenatedWords" -> HyphenatedWordsPredictor_parse(w, morph, {})
          [] OTHER -> ShapeAnalyzer_parse(pred, w, {})

LexIdle == [status |-> "idle"]

AnalyzeDictionary ==
    /\ lex = LexIdle
    /\ \E w \in DictWords \ DOMAIN memo :
          memo' = (w :> Dictionary_parse(w)) @@ memo
    /\ UNCHANGED <<word, seen_parses, seen_tags, returned, ret, ncalls, dawg, lex>>

AnalyzePredictor ==
    /\ lex = LexIdle
    /\ \E w \in (LexWords \ DictWords) \ DOMAIN memo :
       \E pred \in Predictors :
          /\ \A u \in StemsOf(pred, w) : u = <<>> \/ u \in DOMAIN memo
          /\ PredictorParse(pred, w).status = "ok"
          /\ memo' = (w :> PredictorParse(pred, w).result) @@ memo
    /\ UNCHANGED <<word, seen_parses, seen_tags, returned, ret, ncalls, dawg, lex>>

\* MorphAnalyzer.get_lexeme(form): the last entry's predictor replays the chain
StartLexeme ==
    /\ lex = LexIdle
    /\ \E w \in DOMAIN memo :
       \E j \in 1..Len(memo[w]) :
          /\ memo[w][j].methods.items # <<>>
          /\ lex' = [status |-> "running",
                     start |-> memo[w][j],
                     pred |-> Last(memo[w][j].methods.items)[1],
                     form |-> memo[w][j],
                     methods |-> memo[w][j].methods.items,
                     steps |-> 0,
                     frames |-> <<>>,
                     dict_calls |-> <<>>,
                     out |-> <<>>]
    /\ UNCHANGED <<word, seen_parses, seen_tags, returned, ret, ncalls, dawg, memo>>

\* one get_lexeme call frame is entered
LexemeCall ==
    /\ lex.status = "running"
    /\ LET frame == get_lexeme(lex.pred, lex.form, lex.methods)
           entered == [lex EXCEPT !.frames = Append(@, <<lex.pred, lex.methods>>),
                                  !.steps = @ + 1]
       IN  lex' =
             CASE frame.do = "delegate" ->
                    [entered EXCEPT !.pred = frame.pred, !.form = frame.form,
                                    !.methods = frame.methods]
               [] frame.do = "dict" ->
                    [entered EXCEPT !.status = "returning", !.form = frame.form,
                        !.dict_calls = Append(@, frame.methods),
                        !.out = Dictionary_get_lexeme(frame.form, frame.methods)]
               [] frame.do = "return" ->
                    [entered EXCEPT !.status = "returning", !.out = frame.out]
               [] OTHER -> [entered EXCEPT !.status = frame.do]
    /\ UNCHANGED <<word, seen_parses, seen_tags, returned, ret, ncalls, dawg, memo>>

\* the innermost open frame returns: the particle's frame suffixes the lexeme
LexemeReturn ==
    /\ lex.status = "returning"
    /\ lex.frames # <<>>
    /\ LET frame == Last(lex.frames)
       IN  lex' = [lex EXCEPT
                     !.frames = ButLast(@),
                     !.out = IF frame[1] = "HyphenSeparatedParticle"
                             THEN _suffixed_lexeme(@, Last(frame[2])[2])
                             ELSE @,
                     !.status = IF Len(lex.frames) = 1 THEN "done" ELSE @]
    /\ UNCHANGED <<word, seen_parses, seen_tags, returned, ret, ncalls, dawg, memo>>

LexemeDone ==
    /\ lex.status = "done"
    /\ lex' = LexIdle
    /\ UNCHANGED <<word, seen_parses, seen_tags, returned, ret, ncalls, dawg, memo>>

InitLexeme ==
    /\ word = <<>>
    /\ dawg = {}
    /\ seen_parses = {}
    /\ seen_tags = {}
    /\ returned = {}
    /\ ret = NoCall
    /\ ncalls = 0
    /\ memo = <<>>
    /\ lex = LexIdle

NextLexeme ==
    \/ AnalyzeDictionary
    \/ AnalyzePredictor
    \/ StartLexeme
    \/ LexemeCall
    \/ LexemeReturn
    \/ LexemeDone

SpecLexeme == InitLexeme /\ [][NextLexeme]_vars

(***************************************************************************)
(* Properties.                                                             *)
(***************************************************************************)
Results == {ret.result[j] : j \in 1..Len(ret.result)}
ParseReturned == ret.op = "parse" /\ ret.status = "ok"
TagReturned == ret.op = "tag" /\ ret.status = "ok"
LastEntry(p) == p.methods.items[Len(p.methods.items)]

\* C1: the list one parse call returns holds no two entries with the same
\* (surface form, tag, normal form) triple, whichever predictor was called.
C1_TriplesDistinct ==
    ParseReturned =>
        \A a, b \in 1..Len(ret.result) :
            a # b => Triple(ret.result[a]) # Triple(ret.result[b])

\* C2: over the calls of one query with a shared seen set, no triple is
\* returned by two calls, and every triple returned so far is in seen_parses.
C2_SharedSeenSet ==
    ParseReturned =>
        /\ \A p \in Results : Triple(p) \notin returned
        /\ \A p \in Results : Triple(p) \in seen_parses
        /\ returned \subseteq seen_parses

\* C3: the tags a tag call returns are pairwise distinct, none was in
\* seen_tags when the call started, and all are in seen_tags afterwards.
C3_TagsDistinctAndSeen ==
    TagReturned =>
        /\ \A a, b \in 1..Len(ret.result) : a # b => ret.result[a] # ret.result[b]
        /\ \A a \in 1..Len(ret.result) : ret.result[a] \notin ret.seen0
        /\ \A a \in 1..Len(ret.result) : ret.result[a] \in seen_tags

\* C7: no parse or tag call of a predictor ends in an error.
C7_NoError == ret.status = "ok"

\* C9: every word a predictor hands to the analyzer is strictly shorter than
\* the word it received; UnknownPrefix and KnownSuffix hand it none.
C9_AnalyzerWordsShorter ==
    /\ \A j \in 1..Len(ret.calls) : Len(ret.calls[j]) < Len(word)
    /\ ret.pred \in {"UnknownPrefix", "KnownSuffix"} => ret.calls = <<>>

\* C6: HyphenatedWordsPredictor.parse builds a Strategy-B parse only from a
\* (left parse, right parse) pair with equal (POS, number, case, person,
\* tense) tuples and builds one for every such pair whose triple was not seen;
\* with no such pair the result is exactly the Strategy-A parses of the
\* not-yet-seen right parses; a word without hyphen yields an empty list from
\* parse and tag.
HyphenPairs ==
    LET L == ret.sub[SplitLeft(word)]
        R == ret.sub[SplitRight(word)]
    IN  {pr \in (1..Len(L)) \X (1..Len(R)) :
            <<L[pr[1]].tag.POS, L[pr[1]].tag.number, L[pr[1]].tag.case,
              L[pr[1]].tag.person, L[pr[1]].tag.tense>>
          = <<R[pr[2]].tag.POS, R[pr[2]].tag.number, R[pr[2]].tag.case,
              R[pr[2]].tag.person, R[pr[2]].tag.tense>>}

StrategyB(l, r) ==
    [word |-> l.word \o <<"-">> \o r.word, tag |-> l.tag,
     normal_form |-> l.normal_form \o <<"-">> \o r.normal_form,
     para_id |-> l.para_id, idx |-> l.idx,
     estimate |-> EstMul(l.estimate, <<3, 4>>),
     methods |-> [type |-> "tuple",
                  items |-> Append(l.methods.items, <<"HyphenatedWords", word>>)]]

StrategyA(r) ==
    [word |-> SplitLeft(word) \o <<"-">> \o r.word, tag |-> r.tag,
     normal_form |-> SplitLeft(word) \o <<"-">> \o r.normal_form,
     para_id |-> r.para_id, idx |-> r.idx,
     estimate |-> EstMul(r.estimate, <<3, 4>>),
     methods |-> [type |-> "tuple",
                  items |-> Append(r.methods.items, <<"HyphenatedWords", SplitRight(word)>>)]]

C6_HyphenatedStrategies ==
    ret.pred = "HyphenatedWords" =>
        IF FirstHyphen(word) = 0 THEN ret.result = <<>>
        ELSE ret.op = "parse" =>
            LET L == ret.sub[SplitLeft(word)]
                R == ret.sub[SplitRight(word)]
                fresh == {j \in 1..Len(R) : Triple(StrategyA(R[j])) \notin ret.seen0}
            IN  /\ \A p \in Results :
                    LastEntry(p) = <<"HyphenatedWords", word>> =>
                        \E pr \in HyphenPairs : p = StrategyB(L[pr[1]], R[pr[2]])
                /\ \A pr \in HyphenPairs :
                    \/ Triple(StrategyB(L[pr[1]], R[pr[2]])) \in ret.seen0
                    \/ \E p \in Results : Triple(p) = Triple(StrategyB(L[pr[1]], R[pr[2]]))
                /\ HyphenPairs = {} =>
                    /\ Len(ret.result) = Cardinality(fresh)
                    /\ \A j \in fresh : StrategyA(R[j]) \in Results

\* C4: every returned estimate lies in [0, 1] and is strictly smaller than the
\* estimate of the sub-parse it was derived from: KnownPrefix and
\* HyphenatedWords multiply by 3/4, UnknownPrefix by 1/2, the particle predictor
\* by 9/10; KnownSuffix returns count / group_total * 1/2 < 1/2, group_total
\* being 1 plus the counts of the productive matches accumulated for the group;
\* an n-layer chain has an estimate of at most the product of its n decays.
DecayOf(method) ==
    CASE method[1] = "KnownPrefix" -> <<3, 4>>
      [] method[1] = "HyphenatedWords" -> <<3, 4>>
      [] method[1] = "HyphenSeparatedParticle" -> <<9, 10>>
      [] OTHER -> <<1, 2>>

RECURSIVE DecayProduct(_)
DecayProduct(items) ==
    IF items = <<>> THEN <<1, 1>>
    ELSE EstMul(DecayOf(Head(items)), DecayProduct(Tail(items)))

\* the sub-parses the call received
SubParses == UNION {Range(ret.sub[stem]) : stem \in DOMAIN ret.sub}

\* the sub-parses whose chain, extended by one entry, is the chain of p
SourcesOf(p) ==
    {s \in SubParses :
        /\ p.methods.items = Append(s.methods.items, LastEntry(p))
        /\ p.tag = s.tag /\ p.para_id = s.para_id /\ p.idx = s.idx}

RECURSIVE SumCnt(_)
SumCnt(entries) ==
    IF entries = {} THEN 0
    ELSE LET e == CHOOSE x \in entries : TRUE
         IN  e[3] + SumCnt(entries \ {e})

\* the productive entries of group g stored under a variant of the last i
\* characters of the word
MatchedAt(g, i) ==
    {e \in dawg : /\ e[1] = g
                  /\ e[2] \in Range(Variants(TakeLast(word, i)))
                  /\ is_productive(Forms[<<e[4], e[5]>>].tag)}

\* entries matched at the longest suffix length that has a productive match
GroupMatches(g) ==
    IF \A i \in 1..max_suffix_length : MatchedAt(g, i) = {} THEN {}
    ELSE MatchedAt(g, CHOOSE i \in 1..max_suffix_length :
            /\ MatchedAt(g, i) # {}
            /\ \A k \in (i + 1)..max_suffix_length : MatchedAt(g, k) = {})

GroupTotal(g) == 1 + SumCnt(GroupMatches(g))

C4_Estimates ==
    ParseReturned =>
        \A p \in Results :
            /\ EstLeq(<<0, 1>>, p.estimate) /\ EstLeq(p.estimate, <<1, 1>>)
            /\ EstLeq(p.estimate, DecayProduct(p.methods.items))
            /\ ret.pred \in {"KnownPrefix", "UnknownPrefix", "HyphenSeparatedParticle",
                             "HyphenatedWords"} =>
                  /\ SourcesOf(p) # {}
                  /\ \A s \in SourcesOf(p) :
                        (EstLess(<<0, 1>>, s.estimate) /\ EstLeq(s.estimate, <<1, 1>>)) =>
                            /\ EstEq(p.estimate, EstMul(s.estimate, DecayOf(LastEntry(p))))
                            /\ EstLess(p.estimate, s.estimate)
            /\ ret.pred = "KnownSuffix" =>
                  /\ EstLess(p.estimate, <<1, 2>>)
                  /\ \E e \in dawg :
                        /\ <<"KnownSuffix", e[2]>> = LastEntry(p)
                        /\ e[4] = p.para_id /\ e[5] = p.idx
                        /\ e \in GroupMatches(e[1])
                        /\ EstEq(p.estimate, <<e[3], 2 * GroupTotal(e[1])>>)

\* a hyphenated word parsed by both strategies, over a predicted sub-parse
C4_Witness ==
    /\ ParseReturned /\ ret.pred = "HyphenatedWords"
    /\ \E p, q \in Results :
          /\ LastEntry(p) = <<"HyphenatedWords", word>>
          /\ LastEntry(q) = <<"HyphenatedWords", SplitRight(word)>>
          /\ Len(q.methods.items) = 2

\* a suffix-predicted word with two matches in one group
C4_WitnessSuffix ==
    /\ ParseReturned /\ ret.pred = "KnownSuffix" /\ Len(ret.result) = 2
    /\ ~EstEq(ret.result[1].estimate, ret.result[2].estimate)
    /\ \E g \in PrefixIds : GroupTotal(g) > 3

\* C5: the particle predictor calls the analyzer at most once, on the word
\* minus one particle of the 8-element list, and returns an empty list when the
\* stem is empty; no particle is a suffix of another, so at most one particle
\* matches a word; every returned parse has the stem parse's surface and normal
\* form with the particle appended and the stem parse's estimate times 9/10.
MatchingParticles ==
    {k \in 1..Len(PARTICLES_AFTER_HYPHEN) : EndsWith(word, PARTICLES_AFTER_HYPHEN[k])}

C5_OneParticle ==
    /\ Len(PARTICLES_AFTER_HYPHEN) = 8
    /\ \A a, b \in 1..Len(PARTICLES_AFTER_HYPHEN) :
          a # b => ~EndsWith(PARTICLES_AFTER_HYPHEN[a], PARTICLES_AFTER_HYPHEN[b])
    /\ ret.pred = "HyphenSeparatedParticle" =>
          /\ Cardinality(MatchingParticles) <= 1
          /\ Len(ret.calls) <= 1
          /\ \A c \in 1..Len(ret.calls) :
                /\ ret.calls[c] # <<>>
                /\ \E k \in MatchingParticles :
                      word = ret.calls[c] \o PARTICLES_AFTER_HYPHEN[k]
          /\ (\E k \in MatchingParticles : word = PARTICLES_AFTER_HYPHEN[k]) =>
                ret.status = "ok" /\ ret.result = <<>> /\ ret.calls = <<>>
          /\ ret.op = "parse" =>
                \A p \in Results :
                    \E k \in MatchingParticles :
                    \E s \in SubParses :
                        /\ p.word = s.word \o PARTICLES_AFTER_HYPHEN[k]
                        /\ p.normal_form = s.normal_form \o PARTICLES_AFTER_HYPHEN[k]
                        /\ s.word \o PARTICLES_AFTER_HYPHEN[k] = word
                        /\ EstEq(p.estimate, EstMul(s.estimate, <<9, 10>>))
                        /\ p.tag = s.tag

\* a word with a particle whose stem has two parses
C5_Witness ==
    /\ ParseReturned /\ ret.pred = "HyphenSeparatedParticle"
    /\ Len(ret.result) = 2 /\ Len(ret.calls) = 1
    /\ ret.result[1].tag # ret.result[2].tag

\* C10: with empty seen sets the tags KnownSuffixPredictor.tag returns are the
\* tags of the parses KnownSuffixPredictor.parse returns, both being the tags
\* of the productive matches at each group's longest matching suffix length.
MatchingGroups == {g \in PrefixIds : StartsWith(word, paradigm_prefixes[g + 1])}

LongestMatchTags ==
    {Forms[<<e[4], e[5]>>].tag : e \in UNION {GroupMatches(g) : g \in MatchingGroups}}

C10_ParseTagAgree ==
    (ret.pred = "KnownSuffix" /\ ret.seen0 = {}) =>
        /\ ret.op = "parse" =>
              /\ {p.tag : p \in Results} = Range(KnownSuffixPredictor_tag(word, dawg, {}).result)
              /\ {p.tag : p \in Results} = LongestMatchTags
        /\ ret.op = "tag" =>
              /\ Range(ret.result) =
                    {p.tag : p \in Range(KnownSuffixPredictor_parse(word, dawg, {}).result)}
              /\ Range(ret.result) = LongestMatchTags

\* a tag call that stopped at the longest suffix although a shorter one has
\* another productive match
C10_Witness ==
    /\ ret.pred = "KnownSuffix" /\ ret.op = "tag" /\ ret.seen0 = {}
    /\ Len(ret.result) >= 1
    /\ \E g \in MatchingGroups : \E i \in 1..max_suffix_length :
          \E e \in MatchedAt(g, i) :
              /\ e \notin GroupMatches(g)
              /\ Forms[<<e[4], e[5]>>].tag \notin Range(ret.result)

\* C8: replaying a chain of n >= 1 entries peels one entry per get_lexeme call
\* and delegates to the predictor of the new last entry, the assertion on the
\* last entry never fails, the parse's own chain stays as it was, and after at
\* most n calls the replay ends at the dictionary (called once, with an empty
\* chain) or at a shape classifier, which returns the form it was given.
C8_ChainReplay ==
    lex.status # "idle" =>
        LET chain == lex.start.methods.items
            n == Len(chain)
        IN  /\ n >= 1
            /\ lex.status \in {"running", "returning", "done"}
            /\ lex.steps <= n
            /\ \E w \in DOMAIN memo : \E j \in 1..Len(memo[w]) : memo[w][j] = lex.start
            /\ lex.status = "running" =>
                  /\ lex.steps < n
                  /\ lex.methods = SubSeq(chain, 1, n - lex.steps)
                  /\ lex.pred = chain[n - lex.steps][1]
                  /\ Len(lex.frames) = lex.steps
            /\ \A k \in 1..Len(lex.frames) :
                  lex.frames[k] = <<chain[n - k + 1][1], SubSeq(chain, 1, n - k + 1)>>
            /\ lex.status \in {"returning", "done"} =>
                  IF chain[1][1] \in ShapePredictors
                  THEN /\ n = 1 /\ lex.steps = 1 /\ lex.dict_calls = <<>>
                       /\ lex.out = <<lex.start>>
                  ELSE /\ lex.steps = n /\ lex.dict_calls = << <<>> >>

\* the replay of a three-layer chain has ended at the dictionary
C8_Witness ==
    /\ lex.status = "done"
    /\ Len(lex.start.methods.items) = 3
    /\ lex.dict_calls = << <<>> >>
    /\ lex.steps = 3

====
